---------------------------- MODULE Spec2Model ----------------------------
(***************************************************************************)
(* Tower of Hanoi visual solver (src/tower_of_hanoi.py) and its algorithm  *)
(* test (src/test_algorithm.py).                                           *)
(*                                                                         *)
(* The specifications share one set of variables:                          *)
(*   Spec        GameState driven by arbitrary execute_move / reset calls  *)
(*   SpecSolver  test_hanoi_algorithm: list(hanoi_solver(..)) applied in   *)
(*               order to a fresh GameState                                *)
(*   SpecGUI     TowerOfHanoiGUI: start_solving, toggle_pause,             *)
(*               reset_puzzle, next_move and the Tk `after` timers         *)
(*   SpecPlay    SpecGUI without pause and reset, every timer firing       *)
(*   SpecPeg     one Peg driven by arbitrary push / pop / peek calls       *)
(*                                                                         *)
(* A peg is the sequence of its disk sizes, bottom first (Peg.disks with   *)
(* Disk.size; the colour and the x, y of a Disk are drawing data).         *)
(* Canvas drawing, button states, message boxes, the status label and the  *)
(* highlighted move (TowerOfHanoiGUI.current_move) are not modelled.       *)
(***************************************************************************)
EXTENDS Integers, Sequences, FiniteSets

\* ------------------------------------------------------------------ bounds
\* Largest disk count of Spec.
MaxDisks == 4
\* Largest disk count of SpecSolver.
MaxSolverDisks == 6
\* Largest value of GameState.current_move under Spec's arbitrary calls.
MaxCalls == 8
\* Largest number of `after` callbacks pending at once under SpecGUI.
MaxTimers == 2
\* Largest Disk.size given to Peg.push under SpecPeg.
MaxSize == 5

\* ---------------------------------------------------------------- PegName
SOURCE == "A"
AUXILIARY == "B"
DESTINATION == "C"
PegName == {SOURCE, AUXILIARY, DESTINATION}

\* ------------------------------------------------------------------- Move
Move(disk_size, from_peg, to_peg) ==
    [disk_size |-> disk_size, from_peg |-> from_peg, to_peg |-> to_peg]

\* The value of `arg` when the last operation took no Move.
NoMove == Move(-1, SOURCE, SOURCE)

\* The Move values the calls of Spec are drawn from: sizes 0 and MaxDisks + 1
\* are sizes no disk has.
Moves ==
    { Move(s, f, t) : s \in 0..(MaxDisks + 1), f \in PegName, t \in PegName }

\* -------------------------------------------------------------------- Peg
Last(disks) == disks[Len(disks)]
ButLast(disks) == SubSeq(disks, 1, Len(disks) - 1)

\* Mutant of Push: the disk is put at index 0, the bottom of the peg.
PushAtBottom(disks, size) ==
    IF disks # <<>> /\ size >= Last(disks)
    THEN [raised |-> TRUE, disks |-> disks]
    ELSE [raised |-> FALSE, disks |-> <<size>> \o disks]

\* Mutant of Push: the comparison is `>`, a disk of the top disk's size is
\* accepted.
PushAcceptsEqual(disks, size) ==
    IF disks # <<>> /\ size > Last(disks)
    THEN [raised |-> TRUE, disks |-> disks]
    ELSE [raised |-> FALSE, disks |-> Append(disks, size)]

\* Peg.push: ValueError (raised, peg unchanged) when the peg is non-empty and
\* the disk is not smaller than the top one; otherwise appended.
Push(disks, size) ==
    IF disks # <<>> /\ size >= Last(disks)
    THEN [raised |-> TRUE, disks |-> disks]
    ELSE [raised |-> FALSE, disks |-> Append(disks, size)]

\* Peg.pop: the top disk and the rest; None (0, no disk has size 0) and the
\* peg unchanged when empty.
Pop(disks) ==
    IF disks # <<>>
    THEN [disk |-> Last(disks), disks |-> ButLast(disks)]
    ELSE [disk |-> 0, disks |-> disks]

\* Peg.peek: the top disk, None (0) when empty.
Peek(disks) == IF disks # <<>> THEN Last(disks) ELSE 0

\* Peg.is_empty and Peg.size
IsEmpty(disks) == Len(disks) = 0
Size(disks) == Len(disks)

\* -------------------------------------------------------------- GameState
\* The loop `for i in range(num_disks, 0, -1): pegs[SOURCE].push(Disk(i))`
\* of __init__ and reset, from i down to 1. A push that raises ends the loop
\* (the exception leaves the function).
RECURSIVE PushRange(_, _)
PushRange(disks, i) ==
    IF i <= 0
    THEN [raised |-> FALSE, disks |-> disks]
    ELSE LET r == Push(disks, i)
         IN  IF r.raised THEN r ELSE PushRange(r.disks, i - 1)

EmptyPegs == [p \in PegName |-> <<>>]

\* GameState.__init__
GameState(n) ==
    [num_disks    |-> n,
     total_moves  |-> (2 ^ n) - 1,
     current_move |-> 0,
     pegs         |-> [EmptyPegs EXCEPT ![SOURCE] = PushRange(<<>>, n).disks]]

\* Mutant of execute_move: the disk is popped before the placement check, and
\* a rejected placement returns without putting it back.
execute_move_pop_first(gs, move) ==
    LET from_disks == gs.pegs[move.from_peg]
        disk       == Peek(from_disks)
        popped     == [gs.pegs EXCEPT ![move.from_peg] = Pop(from_disks).disks]
        pushed     == Push(popped[move.to_peg], disk)
    IN  IF IsEmpty(from_disks)
        THEN [ret |-> "False", gs |-> gs]
        ELSE IF disk # move.disk_size
        THEN [ret |-> "False", gs |-> gs]
        ELSE IF pushed.raised
        THEN [ret |-> "False", gs |-> [gs EXCEPT !.pegs = popped]]
        ELSE [ret |-> "True",
              gs  |-> [gs EXCEPT !.pegs = [popped EXCEPT ![move.to_peg] = pushed.disks],
                                 !.current_move = @ + 1]]

\* Mutant of execute_move: the third check (placement on a smaller disk) is
\* missing, so Peg.push is the only guard.
execute_move_no_placement_check(gs, move) ==
    LET from_disks == gs.pegs[move.from_peg]
        disk       == Peek(from_disks)
        popped     == [gs.pegs EXCEPT ![move.from_peg] = Pop(from_disks).disks]
        pushed     == Push(popped[move.to_peg], Pop(from_disks).disk)
    IN  IF IsEmpty(from_disks)
        THEN [ret |-> "False", gs |-> gs]
        ELSE IF disk = 0 \/ disk # move.disk_size
        THEN [ret |-> "False", gs |-> gs]
        ELSE IF pushed.raised
        THEN [ret |-> "ValueError", gs |-> [gs EXCEPT !.pegs = popped]]
        ELSE [ret |-> "True",
              gs  |-> [gs EXCEPT !.pegs = [popped EXCEPT ![move.to_peg] = pushed.disks],
                                 !.current_move = @ + 1]]

\* GameState.execute_move. from_peg and to_peg are looked up in the same
\* dict, so with move.from_peg = move.to_peg they are one Peg: the push acts
\* on the peg the pop has already shortened. ret is "True", "False", or
\* "ValueError" when Peg.push raises after the pop.
execute_move(gs, move) ==
    LET from_disks == gs.pegs[move.from_peg]
        to_disks   == gs.pegs[move.to_peg]
        disk       == Peek(from_disks)
        popped     == [gs.pegs EXCEPT ![move.from_peg] = Pop(from_disks).disks]
        pushed     == Push(popped[move.to_peg], Pop(from_disks).disk)
    IN  IF IsEmpty(from_disks)
        THEN [ret |-> "False", gs |-> gs]
        ELSE IF disk = 0 \/ disk # move.disk_size
        THEN [ret |-> "False", gs |-> gs]
        ELSE IF ~IsEmpty(to_disks) /\ Peek(to_disks) < disk
        THEN [ret |-> "False", gs |-> gs]
        ELSE IF pushed.raised
        THEN [ret |-> "ValueError", gs |-> [gs EXCEPT !.pegs = popped]]
        ELSE [ret |-> "True",
              gs  |-> [gs EXCEPT !.pegs = [popped EXCEPT ![move.to_peg] = pushed.disks],
                                 !.current_move = @ + 1]]

\* Mutant of is_solved: only the SOURCE peg is looked at.
is_solved_source_only(gs) == IsEmpty(gs.pegs[SOURCE])

\* GameState.is_solved
is_solved(gs) ==
    /\ Size(gs.pegs[DESTINATION]) = gs.num_disks
    /\ IsEmpty(gs.pegs[SOURCE])
    /\ IsEmpty(gs.pegs[AUXILIARY])

\* Mutant of reset: the move counter is left as it was.
reset_keeps_counter(gs) ==
    [gs EXCEPT !.pegs = [EmptyPegs EXCEPT ![SOURCE] = PushRange(<<>>, gs.num_disks).disks]]

\* GameState.reset: every peg cleared, the disks pushed again, counter 0.
reset(gs) ==
    [gs EXCEPT !.pegs = [EmptyPegs EXCEPT ![SOURCE] = PushRange(<<>>, gs.num_disks).disks],
               !.current_move = 0]

\* ----------------------------------------------------------- hanoi_solver
\* Mutant of hanoi_solver: the second recursive call is missing.
RECURSIVE hanoi_solver_no_second_half(_, _, _, _)
hanoi_solver_no_second_half(n, source, destination, auxiliary) ==
    IF n = 1
    THEN << Move(1, source, destination) >>
    ELSE hanoi_solver_no_second_half(n - 1, source, auxiliary, destination)
         \o << Move(n, source, destination) >>

\* Mutant of hanoi_solver: the middle move names disk n - 1 instead of n.
RECURSIVE hanoi_solver_wrong_disk(_, _, _, _)
hanoi_solver_wrong_disk(n, source, destination, auxiliary) ==
    IF n = 1
    THEN << Move(1, source, destination) >>
    ELSE hanoi_solver_wrong_disk(n - 1, source, auxiliary, destination)
         \o << Move(n - 1, source, destination) >>
         \o hanoi_solver_wrong_disk(n - 1, auxiliary, destination, source)

\* Mutant of hanoi_solver: the second recursive call swaps its last two
\* arguments (moves the n - 1 disks back to the source).
RECURSIVE hanoi_solver_swapped_roles(_, _, _, _)
hanoi_solver_swapped_roles(n, source, destination, auxiliary) ==
    IF n = 1
    THEN << Move(1, source, destination) >>
    ELSE hanoi_solver_swapped_roles(n - 1, source, auxiliary, destination)
         \o << Move(n, source, destination) >>
         \o hanoi_solver_swapped_roles(n - 1, auxiliary, source, destination)

\* Mutant of hanoi_solver: the first recursive call keeps the roles as they
\* are (goes to the destination instead of the auxiliary peg).
RECURSIVE hanoi_solver_first_unswapped(_, _, _, _)
hanoi_solver_first_unswapped(n, source, destination, auxiliary) ==
    IF n = 1
    THEN << Move(1, source, destination) >>
    ELSE hanoi_solver_first_unswapped(n - 1, source, destination, auxiliary)
         \o << Move(n, source, destination) >>
         \o hanoi_solver_first_unswapped(n - 1, auxiliary, destination, source)

\* hanoi_solver: the moves the generator yields, in the order it yields
\* them (n >= 1; the generator of n <= 0 never reaches its base case).
RECURSIVE hanoi_solver(_, _, _, _)
hanoi_solver(n, source, destination, auxiliary) ==
    IF n = 1
    THEN << Move(1, source, destination) >>
    ELSE hanoi_solver(n - 1, source, auxiliary, destination)
         \o << Move(n, source, destination) >>
         \o hanoi_solver(n - 1, auxiliary, destination, source)

\* ------------------------------------------------------------------ state
VARIABLES
    game_state,       \* the GameState: num_disks, total_moves, current_move, pegs
    op,               \* the operation that ran last
    arg,              \* the Move the last execute_move was given (else NoMove)
    ret,              \* what the last execute_move did: "True", "False",
                      \* "ValueError"; "none" when the last operation made no call;
                      \* "TypeError", "StopIteration": what next(move_generator) raised
    pre,              \* game_state as it was before the last operation
    roles,            \* test: <<source, destination, auxiliary>> given to hanoi_solver
    moves,            \* test: list(hanoi_solver(...))
    i,                \* test: number of moves of `moves` already executed
    pc,               \* test: position in test_hanoi_algorithm
    is_solving,       \* GUI
    is_paused,        \* GUI
    move_generator,   \* GUI: [is_none, rest]: the moves the generator has yet to yield
    animation_speed,  \* GUI: milliseconds between moves
    speed_var,        \* GUI: the Speed combobox
    disk_count_var,   \* GUI: the text of the disk-count spinbox, a sequence of characters
    timers,           \* GUI: the pending root.after callbacks (a multiset, kept ordered)
    applied,          \* GUI history: the moves executed on game_state since it was constructed
    fired,            \* GUI history: the callback the event loop ran in the last step
    branch,           \* GUI history: the branch the last handler took
    peg,              \* Peg.disks of a Peg used on its own
    disk              \* the Disk.size the last push was given, or the last pop or
                      \* peek returned (0: None)

callVars == << op, arg, ret, pre >>
testVars == << roles, moves, i, pc >>
guiVars  == << is_solving, is_paused, move_generator, animation_speed,
               speed_var, disk_count_var, timers, applied, fired, branch >>
vars     == << game_state, op, arg, ret, pre, roles, moves, i, pc,
               is_solving, is_paused, move_generator, animation_speed,
               speed_var, disk_count_var, timers, applied, fired, branch,
               peg, disk >>
pegVars  == << peg, disk >>

\* self.move_generator = None
NoGenerator == [is_none |-> TRUE, rest |-> <<>>]

\* The value of `fired` when the last step ran no callback.
NoTimer == [callback |-> "none", delay |-> 0, stale |-> FALSE]

\* The roles the GUI and the test give hanoi_solver.
StandardRoles == << SOURCE, DESTINATION, AUXILIARY >>

\* TowerOfHanoiGUI.__init__ before setup_gui: nothing solving, no generator.
GuiIdle ==
    /\ is_solving = FALSE
    /\ is_paused = FALSE
    /\ move_generator = NoGenerator
    /\ animation_speed = 500
    /\ speed_var = "Normal"
    /\ disk_count_var = << "3" >>
    /\ timers = <<>>
    /\ applied = <<>>
    /\ fired = NoTimer
    /\ branch = "none"

\* Peg.__init__: no disks.
PegIdle ==
    /\ peg = <<>>
    /\ disk = 0

\* The test before its first statement for some n.
TestIdle ==
    /\ roles = StandardRoles
    /\ moves = <<>>
    /\ i = 0
    /\ pc = "start"

\* ------------------------------------------------------------------- Spec
\* A fresh GameState(n), then any execute_move and reset calls.
Init ==
    /\ \E n \in 1..MaxDisks : game_state = GameState(n)
    /\ op = "init" /\ arg = NoMove /\ ret = "none" /\ pre = game_state
    /\ TestIdle
    /\ GuiIdle
    /\ PegIdle

ExecuteMove(move) ==
    /\ game_state.current_move < MaxCalls
    /\ LET r == execute_move(game_state, move)
       IN  /\ game_state' = r.gs
           /\ ret' = r.ret
    /\ op' = "execute_move"
    /\ arg' = move
    /\ pre' = game_state
    /\ UNCHANGED << testVars, guiVars, pegVars >>

Reset ==
    /\ game_state' = reset(game_state)
    /\ op' = "reset"
    /\ arg' = NoMove
    /\ ret' = "none"
    /\ pre' = game_state
    /\ UNCHANGED << testVars, guiVars, pegVars >>

Next ==
    \/ \E move \in Moves : ExecuteMove(move)
    \/ Reset

Spec == Init /\ [][Next]_vars

\* ------------------------------------------------------------- SpecSolver
\* One pass of the loop body of test_hanoi_algorithm for a disk count n. The
\* test calls hanoi_solver with StandardRoles; here the three roles are any
\* pegs, so that the generator is also run on the arguments its recursive
\* calls give it.
InitSolver ==
    /\ \E n \in 1..MaxSolverDisks : game_state = GameState(n)
    /\ op = "init" /\ arg = NoMove /\ ret = "none" /\ pre = game_state
    /\ roles \in PegName \X PegName \X PegName
    /\ moves = <<>>
    /\ i = 0
    /\ pc = "start"
    /\ GuiIdle
    /\ PegIdle

\* moves = list(hanoi_solver(n, ...)) and the assert on len(moves).
TestGenerate ==
    /\ pc = "start"
    /\ moves' = hanoi_solver(game_state.num_disks, roles[1], roles[2], roles[3])
    /\ pc' = IF Len(moves') = (2 ^ game_state.num_disks) - 1
             THEN "execute" ELSE "assert_failed"
    /\ op' = "hanoi_solver"
    /\ arg' = NoMove
    /\ ret' = "none"
    /\ pre' = game_state
    /\ UNCHANGED << game_state, roles, i, guiVars, pegVars >>

\* One iteration of `for i, move in enumerate(moves)`: the test returns False
\* on a failed move; a ValueError leaves the test.
TestExecute ==
    /\ pc = "execute"
    /\ i < Len(moves)
    /\ LET r == execute_move(game_state, moves[i + 1])
       IN  /\ game_state' = r.gs
           /\ ret' = r.ret
           /\ i' = IF r.ret = "True" THEN i + 1 ELSE i
           /\ pc' = IF r.ret = "True" THEN "execute"
                    ELSE IF r.ret = "False" THEN "failed_move" ELSE "raised"
    /\ op' = "execute_move"
    /\ arg' = moves[i + 1]
    /\ pre' = game_state
    /\ UNCHANGED << roles, moves, guiVars, pegVars >>

\* After the loop: `if game_state.is_solved()`.
TestVerify ==
    /\ pc = "execute"
    /\ i = Len(moves)
    /\ pc' = IF is_solved(game_state) THEN "passed" ELSE "unsolved"
    /\ op' = "is_solved"
    /\ arg' = NoMove
    /\ ret' = "none"
    /\ pre' = game_state
    /\ UNCHANGED << game_state, roles, moves, i, guiVars, pegVars >>

NextSolver ==
    \/ TestGenerate
    \/ TestExecute
    \/ TestVerify

SpecSolver == InitSolver /\ [][NextSolver]_vars

\* ---------------------------------------------------------------- SpecGUI
\* int(self.disk_count_var.get()) on the texts the model types into the
\* spinbox: a non-empty run of decimal digits parses to its value, anything
\* else is a ValueError.
Digits == << "0", "1", "2", "3", "4", "5", "6", "7", "8", "9" >>
IsDigit(c) == \E d \in 1..10 : Digits[d] = c
DigitValue(c) == (CHOOSE d \in 1..10 : Digits[d] = c) - 1

RECURSIVE DecimalValue(_)
DecimalValue(text) ==
    IF text = <<>> THEN 0
    ELSE 10 * DecimalValue(ButLast(text)) + DigitValue(Last(text))

int(text) ==
    IF text # <<>> /\ \A j \in 1..Len(text) : IsDigit(text[j])
    THEN [ok |-> TRUE, value |-> DecimalValue(text)]
    ELSE [ok |-> FALSE, value |-> 0]

\* str(3), the text reset_puzzle puts back.
ThreeText == << "3" >>

\* What the user types into the disk-count spinbox: two counts in range, one
\* below, one above, one that is no number.
DiskCountTexts ==
    { << "3" >>, << "4" >>, << "2" >>, << "1", "1" >>, << "x" >> }

\* `3 <= num_disks <= 10` of start_solving and reset_puzzle.
MinDiskCount == 3
MaxDiskCount == 10
InRange(n) == MinDiskCount <= n /\ n <= MaxDiskCount

\* speed_map of update_animation_speed, and the default of speed_map.get.
SpeedNames == {"Slow", "Normal", "Fast"}
SlowDelay == 1000
NormalDelay == 500
FastDelay == 100
DefaultDelay == 500
speed_map(name) ==
    IF name = "Slow" THEN SlowDelay
    ELSE IF name = "Normal" THEN NormalDelay
    ELSE IF name = "Fast" THEN FastDelay
    ELSE DefaultDelay

\* The controller's fields as one record, so that a handler can run another
\* (start_solving and toggle_pause call next_move; next_move calls
\* finish_solving). arg and ret record the execute_move a handler made
\* (ret is "StopIteration" when next_move found the generator exhausted).
\* applied, fired and branch are history, no field of the class: the code
\* reads none of them.
Controller ==
    [game_state      |-> game_state,
     is_solving      |-> is_solving,
     is_paused       |-> is_paused,
     move_generator  |-> move_generator,
     animation_speed |-> animation_speed,
     disk_count_var  |-> disk_count_var,
     timers          |-> timers,
     applied         |-> applied,
     fired           |-> NoTimer,
     branch          |-> "none",
     arg             |-> NoMove,
     ret             |-> "none"]

\* TowerOfHanoiGUI.finish_solving
finish_solving(c) ==
    [c EXCEPT !.is_solving = FALSE, !.is_paused = FALSE]

\* The pending callbacks are a multiset: the model never uses the order in
\* which they were scheduled (see TimerFires). It is kept as a sequence
\* ordered by delay, fresh before stale, so that one multiset is one value.
TimerKey(t) == 2 * t.delay + (IF t.stale THEN 1 ELSE 0)
InsertTimer(ts, t) ==
    LET k == Cardinality({ j \in 1..Len(ts) : TimerKey(ts[j]) <= TimerKey(t) })
    IN  SubSeq(ts, 1, k) \o << t >> \o SubSeq(ts, k + 1, Len(ts))

\* Mutant of after: the next step is not scheduled.
after_not_scheduled(c) == c

\* self.root.after(self.animation_speed, self.next_move): one more pending
\* callback; nothing ever cancels one (the code calls no after_cancel).
\* `stale` is history: set once a later run has started (see start_solving).
after(c) ==
    [c EXCEPT !.timers = InsertTimer(@, [callback |-> "next_move",
                                         delay    |-> c.animation_speed,
                                         stale    |-> FALSE])]

\* The pending callbacks, each marked as scheduled during an earlier run.
MarkStale(ts) == [k \in 1..Len(ts) |-> [ts[k] EXCEPT !.stale = TRUE]]

\* next_move with two of its parts as parameters, for the mutants below:
\* whether the is_paused flag is checked, and how many moves one call pulls
\* from the generator (the last one pulled is the one executed).
next_move_variant(c, checks_pause, pulls) ==
    IF ~c.is_solving \/ (checks_pause /\ c.is_paused)
    THEN c
    ELSE IF c.move_generator.is_none
    THEN [c EXCEPT !.ret = "TypeError"]
    ELSE IF Len(c.move_generator.rest) < pulls
    THEN finish_solving([c EXCEPT !.move_generator.rest = <<>>,
                                  !.ret = "StopIteration"])
    ELSE LET move == c.move_generator.rest[pulls]
             r    == execute_move(c.game_state, move)
             c1   == [c EXCEPT !.move_generator.rest =
                                   SubSeq(@, pulls + 1, Len(@)),
                               !.game_state = r.gs,
                               !.applied = IF r.ret = "True" THEN Append(@, move) ELSE @,
                               !.arg = move,
                               !.ret = r.ret]
         IN  IF r.ret = "True"
             THEN IF is_solved(r.gs) THEN finish_solving(c1) ELSE after(c1)
             ELSE IF r.ret = "False"
             THEN finish_solving(c1)
             ELSE c1

\* Mutant of next_move: each call pulls two moves and executes the second.
next_move_skips_a_move(c) == next_move_variant(c, TRUE, 2)

\* Mutant of next_move: the guard is `if not self.is_solving`, is_paused is
\* not looked at.
next_move_ignores_pause(c) == next_move_variant(c, FALSE, 1)

\* TowerOfHanoiGUI.next_move. StopIteration is the generator having nothing
\* left; next(None) is a TypeError and a ValueError of execute_move is not
\* caught: both leave next_move with the fields as they are at that point.
next_move(c) ==
    IF ~c.is_solving \/ c.is_paused
    THEN c
    ELSE IF c.move_generator.is_none
    THEN [c EXCEPT !.ret = "TypeError"]
    ELSE IF c.move_generator.rest = <<>>
    THEN finish_solving([c EXCEPT !.ret = "StopIteration"])
    ELSE LET move == Head(c.move_generator.rest)
             r    == execute_move(c.game_state, move)
             c1   == [c EXCEPT !.move_generator.rest = Tail(@),
                               !.game_state = r.gs,
                               !.applied = IF r.ret = "True" THEN Append(@, move) ELSE @,
                               !.arg = move,
                               !.ret = r.ret]
         IN  IF r.ret = "True"
             THEN IF is_solved(r.gs) THEN finish_solving(c1) ELSE after(c1)
             ELSE IF r.ret = "False"
             THEN finish_solving(c1)
             ELSE c1

\* start_solving with three of its parts as parameters, for the mutants
\* below: the early return while running, the range check of the disk count,
\* and whether a paused run is resumed or started anew.
start_solving_variant(c, early_return, range_check, resumes) ==
    LET n == int(c.disk_count_var)
        started == next_move([c EXCEPT
                     !.game_state = GameState(n.value),
                     !.move_generator =
                         [is_none |-> FALSE,
                          rest |-> hanoi_solver(n.value, SOURCE, DESTINATION, AUXILIARY)],
                     !.is_solving = TRUE,
                     !.is_paused = FALSE,
                     !.timers = MarkStale(@),
                     !.applied = <<>>,
                     !.branch = "started"])
    IN  IF early_return /\ c.is_solving /\ ~c.is_paused
        THEN [c EXCEPT !.branch = "ignored"]
        ELSE IF ~c.is_solving \/ (~resumes /\ c.is_paused)
        THEN IF ~n.ok \/ (range_check /\ ~InRange(n.value))
             THEN [c EXCEPT !.branch = "invalid_input"]
             ELSE started
        ELSE IF c.is_paused
        THEN next_move([c EXCEPT !.is_paused = FALSE, !.branch = "resumed"])
        ELSE next_move([c EXCEPT !.branch = "ignored"])

\* Mutant of start_solving: no `return` while running, so the call falls
\* through to draw_puzzle() and next_move().
start_solving_no_early_return(c) == start_solving_variant(c, FALSE, TRUE, TRUE)

\* Mutant of start_solving: only int() guards the disk count.
start_solving_no_range_check(c) == start_solving_variant(c, TRUE, FALSE, TRUE)

\* Mutant of start_solving: a paused run is not resumed, a new one starts.
start_solving_restarts_paused(c) == start_solving_variant(c, TRUE, TRUE, FALSE)

\* Mutant of start_solving: a new run gets a new generator but keeps the
\* GameState it finds (no `self.game_state = GameState(num_disks)`).
start_solving_keeps_game_state(c) ==
    IF c.is_solving /\ ~c.is_paused
    THEN [c EXCEPT !.branch = "ignored"]
    ELSE IF ~c.is_solving
    THEN LET n == int(c.disk_count_var)
         IN  IF ~n.ok \/ ~InRange(n.value)
             THEN [c EXCEPT !.branch = "invalid_input"]
             ELSE next_move([c EXCEPT
                     !.move_generator =
                         [is_none |-> FALSE,
                          rest |-> hanoi_solver(n.value, SOURCE, DESTINATION, AUXILIARY)],
                     !.is_solving = TRUE,
                     !.is_paused = FALSE,
                     !.timers = MarkStale(@),
                     !.applied = <<>>,
                     !.branch = "started"])
    ELSE next_move([c EXCEPT !.is_paused = FALSE, !.branch = "resumed"])

\* TowerOfHanoiGUI.start_solving
start_solving(c) ==
    IF c.is_solving /\ ~c.is_paused
    THEN [c EXCEPT !.branch = "ignored"]
    ELSE IF ~c.is_solving
    THEN LET n == int(c.disk_count_var)
         IN  IF ~n.ok \/ ~InRange(n.value)
             THEN [c EXCEPT !.branch = "invalid_input"]
             ELSE next_move([c EXCEPT
                     !.game_state = GameState(n.value),
                     !.move_generator =
                         [is_none |-> FALSE,
                          rest |-> hanoi_solver(n.value, SOURCE, DESTINATION, AUXILIARY)],
                     !.is_solving = TRUE,
                     !.is_paused = FALSE,
                     !.timers = MarkStale(@),
                     !.applied = <<>>,
                     !.branch = "started"])
    ELSE next_move([c EXCEPT !.is_paused = FALSE, !.branch = "resumed"])

\* TowerOfHanoiGUI.toggle_pause
toggle_pause(c) ==
    IF ~c.is_solving
    THEN [c EXCEPT !.branch = "ignored"]
    ELSE LET c1 == [c EXCEPT !.is_paused = ~@,
                             !.branch = IF c.is_paused THEN "resumed" ELSE "paused"]
         IN  IF ~c1.is_paused THEN next_move(c1) ELSE c1

\* Mutant of reset_puzzle: is_solving and is_paused are not cleared.
reset_puzzle_keeps_flags(c) ==
    LET n     == int(c.disk_count_var)
        valid == n.ok /\ InRange(n.value)
    IN  [c EXCEPT !.disk_count_var = IF valid THEN @ ELSE ThreeText,
                  !.game_state = GameState(IF valid THEN n.value ELSE 3),
                  !.applied = <<>>,
                  !.branch = IF valid THEN "reset" ELSE "reset_to_3"]

\* Mutant of reset_puzzle: an invalid count makes a 3-disk puzzle, the
\* spinbox text is left as typed.
reset_puzzle_keeps_text(c) ==
    LET n     == int(c.disk_count_var)
        valid == n.ok /\ InRange(n.value)
    IN  [c EXCEPT !.is_solving = FALSE,
                  !.is_paused = FALSE,
                  !.game_state = GameState(IF valid THEN n.value ELSE 3),
                  !.applied = <<>>,
                  !.branch = IF valid THEN "reset" ELSE "reset_to_3"]

\* TowerOfHanoiGUI.reset_puzzle: move_generator and the pending callbacks are
\* left as they are.
reset_puzzle(c) ==
    LET n     == int(c.disk_count_var)
        valid == n.ok /\ InRange(n.value)
    IN  [c EXCEPT !.is_solving = FALSE,
                  !.is_paused = FALSE,
                  !.disk_count_var = IF valid THEN @ ELSE ThreeText,
                  !.game_state = GameState(IF valid THEN n.value ELSE 3),
                  !.applied = <<>>,
                  !.branch = IF valid THEN "reset" ELSE "reset_to_3"]

\* `result` is what the handler `name` makes of the controller's fields.
\* The step is not taken when it would leave more than MaxTimers callbacks
\* pending.
Handle(name, result) ==
    \E c \in { result } :
        /\ Len(c.timers) <= MaxTimers
        /\ game_state' = c.game_state
        /\ is_solving' = c.is_solving
        /\ is_paused' = c.is_paused
        /\ move_generator' = c.move_generator
        /\ animation_speed' = c.animation_speed
        /\ disk_count_var' = c.disk_count_var
        /\ timers' = c.timers
        /\ applied' = c.applied
        /\ fired' = c.fired
        /\ branch' = c.branch
        /\ op' = name
        /\ arg' = c.arg
        /\ ret' = c.ret
        /\ pre' = game_state
        /\ UNCHANGED << speed_var, testVars, pegVars >>

\* TowerOfHanoiGUI.__init__: setup_gui ends with reset_puzzle() on the
\* spinbox's initial "3".
InitGUI ==
    /\ game_state = GameState(3)
    /\ op = "init" /\ arg = NoMove /\ ret = "none" /\ pre = game_state
    /\ TestIdle
    /\ GuiIdle
    /\ PegIdle

\* Start button, <Return>
StartSolving == Handle("start_solving", start_solving(Controller))

\* Pause button, <space>
TogglePause == Handle("toggle_pause", toggle_pause(Controller))

\* Reset button, <r>
ResetPuzzle == Handle("reset_puzzle", reset_puzzle(Controller))

\* The event loop runs a pending callback: it leaves the pending ones and
\* next_move runs. Which of several is due first depends on their delays and
\* on when each was scheduled, which the model does not measure.
TimerFires ==
    \E k \in 1..Len(timers) :
        Handle("timer",
               next_move([Controller EXCEPT
                   !.timers = SubSeq(timers, 1, k - 1) \o SubSeq(timers, k + 1, Len(timers)),
                   !.fired = timers[k],
                   !.branch = "callback"]))

\* The user edits the disk-count spinbox.
SetDiskCount ==
    \E text \in DiskCountTexts :
        /\ text # disk_count_var
        /\ disk_count_var' = text
        /\ op' = "set_disk_count"
        /\ arg' = NoMove
        /\ ret' = "none"
        /\ pre' = game_state
        /\ fired' = NoTimer
        /\ branch' = "none"
        /\ UNCHANGED << game_state, testVars, pegVars, is_solving, is_paused,
                        move_generator, animation_speed, speed_var, timers, applied >>

\* The user picks a speed: <<ComboboxSelected>> runs update_animation_speed.
\* Mutant of UpdateAnimationSpeed: the callbacks already pending are
\* rescheduled with the new delay.
UpdateAnimationSpeedRetroactive ==
    \E name \in SpeedNames :
        /\ name # speed_var
        /\ speed_var' = name
        /\ animation_speed' = speed_map(name)
        /\ timers' = [k \in 1..Len(timers) |->
                         [timers[k] EXCEPT !.delay = speed_map(name)]]
        /\ op' = "update_animation_speed"
        /\ arg' = NoMove
        /\ ret' = "none"
        /\ pre' = game_state
        /\ fired' = NoTimer
        /\ branch' = "none"
        /\ UNCHANGED << game_state, testVars, pegVars, is_solving, is_paused,
                        move_generator, disk_count_var, applied >>

UpdateAnimationSpeed ==
    \E name \in SpeedNames :
        /\ name # speed_var
        /\ speed_var' = name
        /\ animation_speed' = speed_map(name)
        /\ op' = "update_animation_speed"
        /\ arg' = NoMove
        /\ ret' = "none"
        /\ pre' = game_state
        /\ fired' = NoTimer
        /\ branch' = "none"
        /\ UNCHANGED << game_state, testVars, pegVars, is_solving, is_paused,
                        move_generator, disk_count_var, timers, applied >>

NextGUI ==
    \/ StartSolving
    \/ TogglePause
    \/ ResetPuzzle
    \/ TimerFires
    \/ SetDiskCount
    \/ UpdateAnimationSpeed

SpecGUI == InitGUI /\ [][NextGUI]_vars

\* --------------------------------------------------------------- SpecPlay
\* The controller with no pause and no reset: the user starts runs and edits
\* the two inputs, and the Tk event loop runs every callback that is pending
\* (weak fairness of TimerFires: mainloop runs a due `after` callback).
NextPlay ==
    \/ StartSolving
    \/ TimerFires
    \/ SetDiskCount
    \/ UpdateAnimationSpeed

SpecPlay == InitGUI /\ [][NextPlay]_vars /\ WF_vars(TimerFires)

\* ---------------------------------------------------------------- SpecPeg
\* One Peg, empty as Peg.__init__ leaves it, then any push, pop and peek
\* calls. ret is "ValueError" when the call raised it.
InitPeg ==
    /\ game_state = GameState(3)
    /\ op = "init" /\ arg = NoMove /\ ret = "none" /\ pre = game_state
    /\ TestIdle
    /\ GuiIdle
    /\ PegIdle

PegPush(size) ==
    /\ LET r == Push(peg, size)
       IN  /\ peg' = r.disks
           /\ ret' = IF r.raised THEN "ValueError" ELSE "none"
    /\ disk' = size
    /\ op' = "push"
    /\ UNCHANGED << game_state, arg, pre, testVars, guiVars >>

PegPop ==
    /\ LET r == Pop(peg)
       IN  /\ peg' = r.disks
           /\ disk' = r.disk
    /\ ret' = "none"
    /\ op' = "pop"
    /\ UNCHANGED << game_state, arg, pre, testVars, guiVars >>

PegPeek ==
    /\ disk' = Peek(peg)
    /\ ret' = "none"
    /\ op' = "peek"
    /\ UNCHANGED << peg, game_state, arg, pre, testVars, guiVars >>

NextPeg ==
    \/ \E size \in 1..MaxSize : PegPush(size)
    \/ PegPop
    \/ PegPeek

SpecPeg == InitPeg /\ [][NextPeg]_vars

\* ----------------------------------------------------------------- claims
StrictlyDecreasing(disks) ==
    \A j \in 1..(Len(disks) - 1) : disks[j] > disks[j + 1]

\* How many moves of a sequence name disk k.
CountDisk(ms, k) == Cardinality({ j \in 1..Len(ms) : ms[j].disk_size = k })

\* The sequence hanoi_solver(n, SOURCE, DESTINATION, AUXILIARY) is being
\* applied, or is about to be.
StandardRun == roles = StandardRoles

\* Every move of `moves` has been executed.
AllApplied == pc \in {"execute", "passed", "unsolved"} /\ i = Len(moves)

\* C1: applying the whole sequence of hanoi_solver(n, SOURCE, DESTINATION,
\* AUXILIARY) in order to a fresh GameState(n) never makes execute_move return
\* False (nor raise), and ends with is_solved() true and
\* current_move = total_moves.
C1_SequenceSolves ==
    StandardRun =>
        /\ ret \notin {"False", "ValueError"}
        /\ pc \in {"start", "execute", "passed"}
        /\ AllApplied =>
              /\ is_solved(game_state)
              /\ game_state.current_move = game_state.total_moves

C1_Witness ==
    /\ StandardRun
    /\ pc = "passed"
    /\ game_state.num_disks = MaxSolverDisks
    /\ i = (2 ^ MaxSolverDisks) - 1

\* C2: hanoi_solver(n, source, destination, auxiliary) yields exactly
\* 2^n - 1 moves, for any three roles.
C2_MoveCount ==
    pc # "start" => Len(moves) = (2 ^ game_state.num_disks) - 1

C2_Witness ==
    /\ pc = "execute"
    /\ game_state.num_disks = MaxSolverDisks
    /\ roles = << AUXILIARY, SOURCE, DESTINATION >>
    /\ Len(moves) = (2 ^ MaxSolverDisks) - 1

\* C3: whatever execute_move calls were made, accepted or rejected, the disk
\* sizes on each peg are strictly decreasing from bottom to top.
C3_PegsDecreasing ==
    \A p \in PegName : StrictlyDecreasing(game_state.pegs[p])

C3_Witness ==
    /\ op = "execute_move"
    /\ ret = "False"
    /\ Len(game_state.pegs[AUXILIARY]) >= 2
    /\ Len(game_state.pegs[DESTINATION]) >= 1
    /\ Len(game_state.pegs[SOURCE]) >= 1

\* C4: when execute_move returns False the pegs and the move counter are as
\* they were before the call.
C4_RejectionIsNoOp ==
    (op = "execute_move" /\ ret = "False") => game_state = pre

\* A rejection by the third check: the source top is the disk asked for and
\* the target's top disk is smaller.
C4_Witness ==
    /\ op = "execute_move"
    /\ ret = "False"
    /\ pre.pegs[arg.from_peg] # <<>>
    /\ Last(pre.pegs[arg.from_peg]) = arg.disk_size
    /\ pre.pegs[arg.to_peg] # <<>>
    /\ Last(pre.pegs[arg.to_peg]) < arg.disk_size
    /\ pre.current_move > 0

\* C5: execute_move rejects the move (False, no counter increment) whenever
\* the target peg is non-empty and its top disk size is not strictly greater
\* than move.disk_size, whatever from_peg and to_peg are.
C5_RejectsNotGreater ==
    ( /\ op = "execute_move"
      /\ pre.pegs[arg.to_peg] # <<>>
      /\ ~(Last(pre.pegs[arg.to_peg]) > arg.disk_size) )
    => ( /\ ret = "False"
         /\ game_state.current_move = pre.current_move )

\* C6: after 0, 1, ..., 2^n - 1 moves of the generated sequence, is_solved()
\* is true exactly when current_move = total_moves.
C6_SolvedIffAllMoves ==
    StandardRun =>
        (is_solved(game_state) <=> game_state.current_move = game_state.total_moves)

C6_Witness ==
    /\ StandardRun
    /\ game_state.num_disks = 3
    /\ game_state.current_move = 7
    /\ game_state.pegs[DESTINATION] = << 3, 2, 1 >>
    /\ game_state.pegs[SOURCE] = <<>>
    /\ game_state.pegs[AUXILIARY] = <<>>

\* C7: for n = 3 and roles A, C, B the sequence is (1,A,C) (2,A,B) (1,C,B)
\* (3,A,C) (1,B,A) (2,B,C) (1,A,C) and applying it leaves A and B empty and
\* C = 3, 2, 1 bottom to top; for n = 1 the sequence is (1,A,C).
C7_EmissionOrder ==
    (StandardRun /\ pc # "start") =>
        /\ game_state.num_disks = 3 =>
              /\ moves = << Move(1, "A", "C"), Move(2, "A", "B"), Move(1, "C", "B"),
                            Move(3, "A", "C"), Move(1, "B", "A"), Move(2, "B", "C"),
                            Move(1, "A", "C") >>
              /\ AllApplied =>
                    game_state.pegs = [A |-> <<>>, B |-> <<>>, C |-> << 3, 2, 1 >>]
        /\ game_state.num_disks = 1 => moves = << Move(1, "A", "C") >>

C7_Witness ==
    /\ StandardRun
    /\ pc = "passed"
    /\ game_state.num_disks = 3
    /\ Len(moves) = 7
    /\ i = 7

\* C8: disk k appears in exactly 2^(n-k) moves of hanoi_solver(n, ...), for
\* 1 <= k <= n, and no other disk size appears.
C8_DiskMoveCounts ==
    pc # "start" =>
        /\ \A k \in 1..game_state.num_disks :
              CountDisk(moves, k) = 2 ^ (game_state.num_disks - k)
        /\ \A j \in 1..Len(moves) : moves[j].disk_size \in 1..game_state.num_disks

C8_Witness ==
    /\ pc # "start"
    /\ game_state.num_disks = MaxSolverDisks
    /\ roles = << DESTINATION, AUXILIARY, SOURCE >>
    /\ CountDisk(moves, 1) = 2 ^ (MaxSolverDisks - 1)
    /\ CountDisk(moves, MaxSolverDisks) = 1

\* C9: after any execute_move calls, reset() leaves the pegs, num_disks,
\* current_move and total_moves of a freshly constructed GameState(n): disks
\* n..1 on SOURCE with n at the bottom, the other pegs empty, counter 0.
C9_ResetIsFresh ==
    op = "reset" =>
        /\ game_state = GameState(pre.num_disks)
        /\ game_state.num_disks = pre.num_disks
        /\ game_state.total_moves = (2 ^ pre.num_disks) - 1
        /\ game_state.current_move = 0
        /\ game_state.pegs[SOURCE] = [j \in 1..pre.num_disks |-> pre.num_disks - j + 1]
        /\ game_state.pegs[AUXILIARY] = <<>>
        /\ game_state.pegs[DESTINATION] = <<>>

C9_Witness ==
    /\ op = "reset"
    /\ pre.num_disks = MaxDisks
    /\ pre.current_move >= 3
    /\ pre.pegs[AUXILIARY] # <<>>
    /\ pre.pegs[DESTINATION] # <<>>

\* C10: the controller has at most one next_move callback pending at any
\* time, and pausing or resetting leaves none pending.
C10_AtMostOnePending ==
    /\ Len(timers) <= 1
    /\ (op = "toggle_pause" /\ is_paused) => timers = <<>>
    /\ op = "reset_puzzle" => timers = <<>>

\* The whole sequence of a run for n disks (start_solving's generator).
FullSequence(n) == hanoi_solver(n, SOURCE, DESTINATION, AUXILIARY)

\* The spinbox text is no integer, or one outside 3..10.
InvalidCount ==
    LET n == int(disk_count_var) IN ~n.ok \/ ~(3 <= n.value /\ n.value <= 10)

\* C11: a next_move callback scheduled during an earlier run (reset or
\* finished, then started anew before it fired) applies no move and pulls
\* nothing from the new run's generator.
C11_StaleCallbackNoOp ==
    [][ (op' = "timer" /\ fired'.stale)
        => (game_state' = game_state /\ move_generator' = move_generator) ]_vars

\* C12: under every interleaving of the handlers and timer firings, the moves
\* applied to the current puzzle state are a prefix of its run's generated
\* sequence, in generator order, none skipped or repeated: as many as the
\* move counter says, every move pulled is applied (none is turned down), and
\* while solving the generator holds exactly the rest.
C12_AppliedIsPrefix ==
    LET full == FullSequence(game_state.num_disks)
    IN  /\ Len(applied) <= Len(full)
        /\ applied = SubSeq(full, 1, Len(applied))
        /\ game_state.current_move = Len(applied)
        /\ ret \in {"none", "True"}
        /\ is_solving =>
              move_generator.rest = SubSeq(full, Len(applied) + 1, Len(full))

\* A callback of an earlier run has just applied the fifth or a later move
\* of the current run.
C12_Witness ==
    /\ op = "timer"
    /\ fired.stale
    /\ ret = "True"
    /\ Len(applied) >= 5
    /\ is_solving

\* C13: a next_move callback that fires while the controller is PAUSED
\* leaves the pegs, the move counter and the generator position unchanged.
C13_PausedCallbackNoOp ==
    [][ (is_solving /\ is_paused /\ op' = "timer")
        => /\ game_state' = game_state
           /\ move_generator' = move_generator
           /\ applied' = applied
           /\ is_solving' /\ is_paused' ]_vars

C13_Witness ==
    /\ op = "timer"
    /\ is_solving
    /\ is_paused
    /\ game_state.current_move >= 2

\* C14: resuming from PAUSED through toggle_pause or start_solving keeps the
\* puzzle state and the generator, and applies move number current_move + 1
\* of the sequence.
C14_ResumeContinues ==
    [][ (is_solving /\ is_paused /\ op' \in {"toggle_pause", "start_solving"})
        => LET next == FullSequence(game_state.num_disks)[game_state.current_move + 1]
           IN  /\ arg' = next
               /\ ret' = "True"
               /\ game_state' = execute_move(game_state, next).gs
               /\ game_state'.num_disks = game_state.num_disks
               /\ game_state'.current_move = game_state.current_move + 1
               /\ applied' = Append(applied, next)
               /\ ~move_generator'.is_none
               /\ move_generator'.rest = Tail(move_generator.rest)
               /\ ~is_paused' ]_vars

C14_Witness ==
    /\ op = "start_solving"
    /\ branch = "resumed"
    /\ ret = "True"
    /\ game_state.current_move >= 3

\* C15: reset_puzzle in any state leaves the controller IDLE with a fresh
\* GameState, and while it is not solving no step but start_solving (or
\* another reset) changes the puzzle state, a firing callback included.
C15_ResetIdles ==
    /\ [](op = "reset_puzzle" =>
            /\ ~is_solving
            /\ ~is_paused
            /\ game_state = GameState(game_state.num_disks)
            /\ game_state.current_move = 0
            /\ game_state.pegs[AUXILIARY] = <<>>
            /\ game_state.pegs[DESTINATION] = <<>>)
    /\ [][ (~is_solving /\ op' \notin {"start_solving", "reset_puzzle"})
           => game_state' = game_state ]_vars

\* A callback scheduled by a run fired after a reset.
C15_Witness ==
    /\ op = "timer"
    /\ ~is_solving
    /\ game_state.current_move = 0
    /\ ~move_generator.is_none

\* C16 as stated: start_solving with a disk count outside 3..10, or no
\* integer, leaves game_state, move_generator, is_solving and is_paused
\* unchanged and requests or schedules no step.
C16_InvalidStartRejected ==
    [][ (InvalidCount /\ op' = "start_solving")
        => /\ UNCHANGED << game_state, move_generator, is_solving, is_paused, timers >>
           /\ ret' = "none" ]_vars

\* C16 amended: the same, for start_solving while not solving (IDLE or
\* FINISHED).
C16_InvalidStartRejectedWhenIdle ==
    [][ (~is_solving /\ InvalidCount /\ op' = "start_solving")
        => /\ UNCHANGED << game_state, move_generator, is_solving, is_paused, timers >>
           /\ ret' = "none" ]_vars

C16_Witness ==
    /\ op = "start_solving"
    /\ branch = "invalid_input"
    /\ InvalidCount
    /\ ~is_solving

\* C17 as stated: reset_puzzle with a disk count outside 3..10, or no integer,
\* creates no new GameState and leaves the configured disk count as it is.
C17_InvalidResetRejected ==
    [][ (InvalidCount /\ op' = "reset_puzzle")
        => UNCHANGED << game_state, disk_count_var >> ]_vars

\* C17 amended: reset_puzzle with such a disk count replaces the configured
\* count by 3 and constructs a fresh GameState(3); the controller is IDLE.
C17_InvalidResetFallsBackTo3 ==
    [][ (InvalidCount /\ op' = "reset_puzzle")
        => /\ disk_count_var' = << "3" >>
           /\ game_state' = GameState(3)
           /\ game_state'.num_disks = 3
           /\ ~is_solving'
           /\ ~is_paused' ]_vars

C17_Witness ==
    /\ op = "reset_puzzle"
    /\ branch = "reset_to_3"
    /\ pre.num_disks = 4
    /\ pre.current_move >= 2

\* C18: toggle_pause while IDLE or FINISHED, and start_solving while RUNNING
\* (not paused), leave is_solving, is_paused, the puzzle state, the generator
\* position and the pending scheduled steps unchanged.
C18_InvalidTransitionNoOp ==
    [][ ( \/ (~is_solving /\ op' = "toggle_pause")
          \/ (is_solving /\ ~is_paused /\ op' = "start_solving") )
        => UNCHANGED << is_solving, is_paused, game_state, move_generator,
                        timers, applied >> ]_vars

C18_Witness ==
    /\ op = "start_solving"
    /\ branch = "ignored"
    /\ is_solving
    /\ timers # <<>>
    /\ game_state.current_move >= 2

\* The controller is FINISHED with the puzzle solved by the whole sequence.
Finished ==
    /\ ~is_solving
    /\ is_solved(game_state)
    /\ Len(applied) = (2 ^ game_state.num_disks) - 1
    /\ game_state.current_move = (2 ^ game_state.num_disks) - 1
    /\ timers = <<>>

\* C19: without pause or reset, and with every scheduled callback firing, a
\* started run reaches FINISHED with is_solved() true after exactly 2^n - 1
\* applied moves, and no step is pending once the controller is not solving.
C19_RunFinishes ==
    /\ is_solving ~> Finished
    /\ [](~is_solving => timers = <<>>)

C19_Witness ==
    /\ Finished
    /\ game_state.num_disks = 4
    /\ op = "timer"

\* The disks on the three pegs, as a sequence.
AllDisks(gs) == gs.pegs[SOURCE] \o gs.pegs[AUXILIARY] \o gs.pegs[DESTINATION]

\* C20: execute_move ends with a boolean and never raises, whatever the Move:
\* no call leaves a disk popped and not pushed, and the pegs together hold
\* each disk 1..n exactly once.
C20_NeverRaises ==
    /\ ret \in {"none", "True", "False"}
    /\ Len(AllDisks(game_state)) = game_state.num_disks
    /\ \A d \in 1..game_state.num_disks :
          Cardinality({ j \in 1..Len(AllDisks(game_state)) :
                          AllDisks(game_state)[j] = d }) = 1

\* An accepted move onto a non-empty peg, and one from a peg onto itself.
C20_Witness ==
    /\ op = "execute_move"
    /\ ret = "True"
    /\ pre.pegs[arg.to_peg] # <<>>
    /\ arg.from_peg = arg.to_peg
    /\ game_state.pegs[AUXILIARY] # <<>>

\* GameState(n) after the first k moves of the run's sequence, each applied
\* with execute_move.
RECURSIVE Replay(_, _)
Replay(n, k) ==
    IF k = 0
    THEN GameState(n)
    ELSE execute_move(Replay(n, k - 1), FullSequence(n)[k]).gs

\* C21: while the controller is solving, the puzzle state is a fresh
\* GameState of its disk count with the first current_move moves of the
\* run's sequence applied; next_move never takes the failed-move branch or
\* the StopIteration branch; and 0 <= current_move <= total_moves always.
C21_SolvingStateIsReplay ==
    /\ 0 <= game_state.current_move
    /\ game_state.current_move <= game_state.total_moves
    /\ ret \notin {"False", "StopIteration"}
    /\ is_solving =>
          game_state = Replay(game_state.num_disks, game_state.current_move)

\* A callback has just applied the last move but one of a run of 4 disks.
C21_Witness ==
    /\ is_solving
    /\ op = "timer"
    /\ ret = "True"
    /\ game_state.num_disks = 4
    /\ game_state.current_move = game_state.total_moves - 1

\* The number of pending callbacks scheduled with delay d.
Pending(ts, d) == Cardinality({ k \in 1..Len(ts) : ts[k].delay = d })

\* C22: choosing a pacing preset (Slow 1000 ms, Normal 500 ms, Fast 100 ms)
\* sets animation_speed and leaves the pending callbacks with their delays,
\* the puzzle state and the generator as they are; a step scheduled
\* afterwards has the delay of the preset chosen last: no step adds a pending
\* callback with any other delay, and a handler that applies a move without
\* solving the puzzle adds one with that delay.
C22_PresetNotRetroactive ==
    [][ /\ op' = "update_animation_speed" =>
            /\ speed_var' \in {"Slow", "Normal", "Fast"}
            /\ animation_speed' = (CASE speed_var' = "Slow"   -> 1000
                                     [] speed_var' = "Normal" -> 500
                                     [] speed_var' = "Fast"   -> 100)
            /\ UNCHANGED << timers, game_state, move_generator >>
        /\ op' # "update_animation_speed" =>
            /\ animation_speed' = animation_speed
            /\ \A d \in {100, 500, 1000} \ {animation_speed} :
                  Pending(timers', d) <= Pending(timers, d)
            /\ (ret' = "True" /\ is_solving') =>
                  Pending(timers', animation_speed)
                    = Pending(timers, animation_speed) + 1
                      - (IF fired'.delay = animation_speed THEN 1 ELSE 0)
      ]_vars

\* A callback scheduled under Slow is still pending with its 1000 ms after
\* the preset became Fast, and the step just scheduled has 100 ms.
C22_Witness ==
    /\ op = "toggle_pause"
    /\ ret = "True"
    /\ speed_var = "Fast"
    /\ animation_speed = 100
    /\ Pending(timers, 1000) = 1
    /\ Pending(timers, 100) = 1

\* C23: Peg.push of a disk not smaller than the top disk is rejected and
\* leaves the disks as they are, otherwise the disk is the new top; Peg.pop
\* of an empty peg returns None and leaves it empty, otherwise it removes and
\* returns the top disk; Peg.peek returns the top disk (None when empty) and
\* never changes the peg.
C23_PegOperations ==
    [][ /\ op' = "push" =>
            IF peg # <<>> /\ disk' >= peg[Len(peg)]
            THEN ret' = "ValueError" /\ peg' = peg
            ELSE ret' = "none" /\ peg' = peg \o << disk' >>
        /\ op' = "pop" =>
            IF peg = <<>>
            THEN disk' = 0 /\ peg' = <<>>
            ELSE disk' = peg[Len(peg)] /\ peg' \o << disk' >> = peg
        /\ op' = "peek" =>
            /\ peg' = peg
            /\ disk' = (IF peg = <<>> THEN 0 ELSE peg[Len(peg)])
      ]_vars

\* A push of a disk of the top disk's size has just been rejected.
C23_Witness ==
    /\ op = "push"
    /\ ret = "ValueError"
    /\ Len(peg) >= 2
    /\ disk = peg[Len(peg)]

=============================================================================
